---------------------------- MODULE Spec2Model ----------------------------
(***************************************************************************)
(* A model of src/scraper.js, the Zalando deals scraper.                   *)
(*                                                                         *)
(* The source file holds two variants of the script, one after the other: *)
(*   variant "A"  lines   1-359  (no price / discount floor, no unit-price *)
(*                                filter, three category URLs)             *)
(*   variant "B"  lines 361-824  (MIN_SALE_PRICE, MIN_DISCOUNT_PERCENT,    *)
(*                                unit-price filter, two category URLs)    *)
(* A behaviour of the model runs one of the two variants.                  *)
(*                                                                         *)
(* Text is modelled as a sequence of one-character strings, so that the    *)
(* regular expressions of the source are computed character by character.  *)
(* Money values are integers counting cents.  A JavaScript value that may  *)
(* be null is a sequence of length at most one: << >> is null, <<v>> is v. *)
(*                                                                         *)
(* Environment: the browser (page.goto, the load-state waits, the element  *)
(* queries) may fail wherever the source guards the call; timers           *)
(* (page.waitForTimeout) and the local file writes of debugDump are taken  *)
(* to succeed.                                                             *)
(***************************************************************************)
EXTENDS Integers, Sequences, FiniteSets, TLC

VARIABLES
  variant,     \* which of the two scripts of src/scraper.js runs
  pc,          \* position of main / scrapeCategory / gotoWithRetry
  catIdx,      \* main: index into CATEGORY_URLS of the category in progress
  gotoI,       \* gotoWithRetry: loop variable i
  lastErr,     \* gotoWithRetry: lastErr (<< >> or <<attempt number>>)
  page,        \* the rendered page of the category in progress
  cardIdx,     \* scrapeCategory: position in cards.slice(0, maxCards)
  results,     \* scrapeCategory: results
  all,         \* main: all
  unique,      \* main: unique (the deduplicated output)
  trace,       \* history: the calls of the category in progress, first
               \* those inside gotoWithRetry, then those after it returned
  outcome,     \* history: how each category ended
  callArgs,    \* pure-function specifications: the arguments of the call
  callRet,     \* pure-function specifications: what the call returned
  scroll       \* scrollToLoad: its parameter, its locals and what it did

vars == <<variant, pc, catIdx, gotoI, lastErr, page, cardIdx, results, all,
          unique, trace, outcome, callArgs, callRet, scroll>>

pipelineVars == <<pc, catIdx, gotoI, lastErr, page, cardIdx, results, all,
                  unique, trace, outcome>>

Variants == {"A", "B"}

Null == << >>

Some(v) == <<v>>

(***************************************************************************)
(* Characters and the character classes of JavaScript regular expressions. *)
(***************************************************************************)
\* the currency marker U+20AC, one character of a text
Euro == "EURO SIGN"

Digits == <<"0", "1", "2", "3", "4", "5", "6", "7", "8", "9">>

LowerLetters == <<"a", "b", "c", "d", "e", "f", "g", "h", "i", "j", "k", "l", "m",
                  "n", "o", "p", "q", "r", "s", "t", "u", "v", "w", "x", "y", "z">>

UpperLetters == <<"A", "B", "C", "D", "E", "F", "G", "H", "I", "J", "K", "L", "M",
                  "N", "O", "P", "Q", "R", "S", "T", "U", "V", "W", "X", "Y", "Z">>

Range(s) == {s[i] : i \in 1..Len(s)}

IsDigit(c) == c \in Range(Digits)

IsSpace(c) == c \in {" ", "\t", "\n"}

IsSep(c) == c \in {".", ","}

\* \w of a regular expression without the unicode flag
IsWordChar(c) == c \in Range(Digits) \cup Range(LowerLetters) \cup Range(UpperLetters) \cup {"_"}

DigitVal(c) == (CHOOSE i \in 1..10 : Digits[i] = c) - 1

ToLowerChar(c) ==
  IF c \in Range(UpperLetters)
    THEN LowerLetters[CHOOSE i \in 1..26 : UpperLetters[i] = c]
    ELSE c

toLowerCase(s) == [i \in 1..Len(s) |-> ToLowerChar(s[i])]

\* s[i], or a character outside every class when i is past the ends
At(s, i) == IF i >= 1 /\ i <= Len(s) THEN s[i] ELSE "<end>"

Min(a, b) == IF a <= b THEN a ELSE b

RECURSIVE Count(_, _)
Count(s, c) == IF s = << >> THEN 0 ELSE (IF s[1] = c THEN 1 ELSE 0) + Count(Tail(s), c)

\* String.prototype.lastIndexOf for one character; 0 stands for JavaScript's -1
lastIndexOf(s, c) ==
  IF \E i \in 1..Len(s) : s[i] = c
    THEN CHOOSE i \in 1..Len(s) : s[i] = c /\ \A j \in (i+1)..Len(s) : s[j] # c
    ELSE 0

\* s.replace(/c/g, "")
RemoveAll(s, c) == SelectSeq(s, LAMBDA x : x # c)

\* s.replace(c, d): only the first occurrence is replaced
ReplaceFirst(s, c, d) ==
  IF \E i \in 1..Len(s) : s[i] = c
    THEN LET k == CHOOSE i \in 1..Len(s) : s[i] = c /\ \A j \in 1..(i-1) : s[j] # c
         IN  [i \in 1..Len(s) |-> IF i = k THEN d ELSE s[i]]
    ELSE s

(***************************************************************************)
(* The price pattern /(\d{1,3}(?:[.,]\d{3})*[.,]\d{2})/ .                  *)
(***************************************************************************)
\* [.,]\d{3} at position p
IsGroupAt(s, p) ==
  /\ IsSep(At(s, p))
  /\ IsDigit(At(s, p + 1)) /\ IsDigit(At(s, p + 2)) /\ IsDigit(At(s, p + 3))

\* [.,]\d{2} at position p
IsFractionAt(s, p) ==
  /\ IsSep(At(s, p))
  /\ IsDigit(At(s, p + 1)) /\ IsDigit(At(s, p + 2))

\* the largest number of consecutive [.,]\d{3} groups starting at p
RECURSIVE MaxGroups(_, _)
MaxGroups(s, p) == IF IsGroupAt(s, p) THEN 1 + MaxGroups(s, p + 4) ELSE 0

\* With the leading digits ending before p: the greedy (?:...)* gives back
\* one group at a time until [.,]\d{2} follows.  The end of the match
\* (last index), or 0.
RECURSIVE TailMatch(_, _, _)
TailMatch(s, p, k) ==
  IF IsFractionAt(s, p + 4 * k) THEN p + 4 * k + 2
  ELSE IF k = 0 THEN 0
  ELSE TailMatch(s, p, k - 1)

\* \d{1,3} tried greedily with d = 3, 2, 1 leading digits at position i
RECURSIVE LeadMatch(_, _, _)
LeadMatch(s, i, d) ==
  IF d = 0 THEN 0
  ELSE IF (\A j \in 0..(d-1) : IsDigit(At(s, i + j)))
            /\ TailMatch(s, i + d, MaxGroups(s, i + d)) # 0
         THEN TailMatch(s, i + d, MaxGroups(s, i + d))
  ELSE LeadMatch(s, i, d - 1)

\* the last index of the match of the price pattern that starts at i, or 0
PriceMatchEnd(s, i) == LeadMatch(s, i, 3)

\* the leftmost match at or after position i: <<start, end>>, or << >>
RECURSIVE FirstPriceMatch(_, _)
FirstPriceMatch(s, i) ==
  IF i > Len(s) THEN << >>
  ELSE IF PriceMatchEnd(s, i) # 0 THEN <<i, PriceMatchEnd(s, i)>>
  ELSE FirstPriceMatch(s, i + 1)

\* s.match(/.../g) || []: every match, left to right, without overlap
RECURSIVE AllPriceMatches(_, _)
AllPriceMatches(s, i) ==
  LET m == FirstPriceMatch(s, i)
  IN  IF m = << >> THEN << >>
      ELSE <<SubSeq(s, m[1], m[2])>> \o AllPriceMatches(s, m[2] + 1)

(***************************************************************************)
(* Number(t) for the cleaned token: in cents, or << >> for NaN.            *)
(***************************************************************************)
RECURSIVE DigitsToNat(_)
DigitsToNat(s) ==
  IF s = << >> THEN 0 ELSE 10 * DigitsToNat(SubSeq(s, 1, Len(s) - 1)) + DigitVal(s[Len(s)])

NumberCents(t) ==
  LET dot == lastIndexOf(t, ".")
      int == SubSeq(t, 1, dot - 1)
      frac == SubSeq(t, dot + 1, Len(t))
  IN  IF /\ Count(t, ".") = 1
         /\ Count(t, ",") = 0
         /\ Len(frac) = 2
         /\ \A i \in 1..Len(int) : IsDigit(int[i])
         /\ \A i \in 1..2 : IsDigit(frac[i])
        THEN Some(100 * DigitsToNat(int) + DigitsToNat(frac))
        ELSE Null

\* parseMoney with the two separators' roles exchanged
parseMoney_swapped(text) ==
  LET m == FirstPriceMatch(text, 1)
      t == SubSeq(text, m[1], m[2])
  IN  IF text = << >> \/ m = << >> THEN Null
      ELSE IF lastIndexOf(t, ",") < lastIndexOf(t, ".")
        THEN NumberCents(ReplaceFirst(RemoveAll(t, "."), ",", "."))
        ELSE NumberCents(RemoveAll(t, ","))

\* parseMoney(text): the value in cents as <<cents>>, or << >> for null
parseMoney(text) ==
  LET m == FirstPriceMatch(text, 1)
      t == SubSeq(text, m[1], m[2])
  IN  IF text = << >> \/ m = << >> THEN Null
      ELSE IF lastIndexOf(t, ",") > lastIndexOf(t, ".")
        THEN NumberCents(ReplaceFirst(RemoveAll(t, "."), ",", "."))
        ELSE NumberCents(RemoveAll(t, ","))

(***************************************************************************)
(* Formatting an amount of cents in the two styles of the round trip.      *)
(***************************************************************************)
RECURSIVE NatToDigits(_)
NatToDigits(n) ==
  IF n < 10 THEN <<Digits[n + 1]>> ELSE NatToDigits(n \div 10) \o <<Digits[(n % 10) + 1]>>

\* the digits of the integer part in groups of three from the right
RECURSIVE Grouped(_, _)
Grouped(ds, sep) ==
  IF Len(ds) <= 3 THEN ds
  ELSE Grouped(SubSeq(ds, 1, Len(ds) - 3), sep) \o <<sep>> \o SubSeq(ds, Len(ds) - 2, Len(ds))

FormatMoney(cents, groupSep, decimalSep) ==
  Grouped(NatToDigits(cents \div 100), groupSep)
    \o <<decimalSep, Digits[((cents % 100) \div 10) + 1], Digits[(cents % 10) + 1]>>

\* "1.234,56"
FormatEU(cents) == FormatMoney(cents, ".", ",")

\* "1,234.56"
FormatUS(cents) == FormatMoney(cents, ",", ".")

(***************************************************************************)
(* Specification of parseMoney alone: the amount is drawn, formatted in    *)
(* one of the two styles with some surrounding text, and parsed.           *)
(***************************************************************************)
MaxSmallCents == 120

Amounts ==
  (0..MaxSmallCents)
    \cup {999, 1000, 3999, 10799, 99999, 100000, 123456, 999999, 1000000,
          1234567, 99999999, 100000000, 123456789}

Styles == {"EU", "US"}

\* text around the formatted amount in a fragment
Prefixes == {<< >>, <<Euro, " ">>, <<"d", "a", " ">>}

Suffixes == {<< >>, <<" ", Euro>>}

Idle == [fn |-> "none"]

\* scrollToLoad is not running
NotScrolling == [pc |-> "none"]

PipelineIdle ==
  /\ pc = "idle" /\ catIdx = 0 /\ gotoI = 0 /\ lastErr = Null /\ page = Null
  /\ cardIdx = 0 /\ results = << >> /\ all = << >> /\ unique = << >>
  /\ trace = << >> /\ outcome = << >>

InitMoney ==
  /\ variant \in Variants
  /\ PipelineIdle
  /\ scroll = NotScrolling
  /\ callArgs \in [fn : {"parseMoney"}, d : Amounts, style : Styles,
                   pre : Prefixes, post : Suffixes]
  /\ callRet = Null

MoneyText(a) ==
  a.pre \o (IF a.style = "EU" THEN FormatEU(a.d) ELSE FormatUS(a.d)) \o a.post

CallParseMoney ==
  /\ callArgs.fn = "parseMoney"
  /\ callRet = Null
  /\ callRet' = Some(parseMoney(MoneyText(callArgs)))
  /\ UNCHANGED <<variant, callArgs, pipelineVars, scroll>>

NextMoney == CallParseMoney

SpecMoney == InitMoney /\ [][NextMoney]_vars

\* C10: parseMoney round trip.  For every amount d of cents, parseMoney of d
\* formatted as "1.234,56" (grouping '.', decimal ',') and as "1,234.56"
\* (grouping ',', decimal '.') returns d: the separator that occurs last is
\* the decimal separator and the other one is stripped.
C10_ParseMoneyRoundTrip ==
  (callArgs.fn = "parseMoney" /\ callRet # Null) => callRet = Some(Some(callArgs.d))

\* C10 witness: an amount with two grouping separators has been parsed from
\* the "1.234,56" style.
C10_Witness ==
  /\ callArgs.fn = "parseMoney"
  /\ callArgs.d = 123456789
  /\ callArgs.style = "EU"
  /\ callRet = Some(Some(123456789))

(***************************************************************************)
(* computeDiscount.  Math.round(x) is floor(x + 1/2); with original > 0    *)
(* round(100 * (original - sale) / original) is computed exactly on cents  *)
(* as floor((200 * (original - sale) + original) / (2 * original)).        *)
(***************************************************************************)
MathRoundRatio(num, den) == (2 * num + den) \div (2 * den)

\* computeDiscount(original, sale); the arguments are << >> (null) or <<cents>>
computeDiscount(original, sale) ==
  IF \/ original = Null \/ original[1] = 0      \* !original
     \/ sale = Null \/ sale[1] = 0              \* !sale
     \/ original[1] <= 0
    THEN 0
    ELSE MathRoundRatio(100 * (original[1] - sale[1]), original[1])

DiscountValues == {0, 1, 2,  850, 1000, 2999, 3000, 3999, 5999, 7999, 10000, 12345}

DiscountArgs == {Null} \cup {Some(v) : v \in DiscountValues}

InitDiscount ==
  /\ variant \in Variants
  /\ PipelineIdle
  /\ scroll = NotScrolling
  /\ callArgs \in [fn : {"computeDiscount"}, original : DiscountArgs, sale : DiscountArgs]
  /\ callRet = Null

CallComputeDiscount ==
  /\ callArgs.fn = "computeDiscount"
  /\ callRet = Null
  /\ callRet' = Some(computeDiscount(callArgs.original, callArgs.sale))
  /\ UNCHANGED <<variant, callArgs, pipelineVars, scroll>>

NextDiscount == CallComputeDiscount

SpecDiscount == InitDiscount /\ [][NextDiscount]_vars

IsNullOrNonPositive(x) == x = Null \/ x[1] <= 0

\* C9: computeDiscount returns 0 when either argument is null or
\* non-positive, and otherwise round(100 * (original - sale) / original)
\* clamped so that the result is never negative, also when original < sale.
C9_ComputeDiscountClamped ==
  (callArgs.fn = "computeDiscount" /\ callRet # Null) =>
    LET o == callArgs.original
        s == callArgs.sale
    IN  /\ callRet[1] >= 0
        /\ (IsNullOrNonPositive(o) \/ IsNullOrNonPositive(s)) => callRet[1] = 0
        /\ (~IsNullOrNonPositive(o) /\ ~IsNullOrNonPositive(s) /\ o[1] >= s[1])
             => callRet[1] = MathRoundRatio(100 * (o[1] - s[1]), o[1])

(***************************************************************************)
(* Lines of a fragment's text.                                             *)
(***************************************************************************)
\* text.split("\n")
RECURSIVE SplitLines(_)
SplitLines(text) ==
  IF \E i \in 1..Len(text) : text[i] = "\n"
    THEN LET k == CHOOSE i \in 1..Len(text) : text[i] = "\n" /\ \A j \in 1..(i-1) : text[j] # "\n"
         IN  <<SubSeq(text, 1, k - 1)>> \o SplitLines(SubSeq(text, k + 1, Len(text)))
    ELSE <<text>>

\* s.trim()
RECURSIVE trim(_)
trim(s) ==
  IF s = << >> THEN s
  ELSE IF IsSpace(s[1]) THEN trim(Tail(s))
  ELSE IF IsSpace(s[Len(s)]) THEN trim(SubSeq(s, 1, Len(s) - 1))
  ELSE s

\* s.includes(c) for one character
Includes(s, c) == \E i \in 1..Len(s) : s[i] = c

\* the first position at or after i that holds no white space (\s*)
RECURSIVE SkipSpaces(_, _)
SkipSpaces(s, i) == IF IsSpace(At(s, i)) THEN SkipSpaces(s, i + 1) ELSE i

\* the position after the digits that start at i (\d+); i itself when none
RECURSIVE SkipDigits(_, _)
SkipDigits(s, i) == IF IsDigit(At(s, i)) THEN SkipDigits(s, i + 1) ELSE i

\* the literal word w at position p, followed by a word boundary
WordThenBoundary(s, p, w) ==
  /\ \A j \in 1..Len(w) : At(s, p + j - 1) = w[j]
  /\ ~IsWordChar(At(s, p + Len(w)))

\* (ml|g|kg|l)\b at position p
UnitAt(s, p) ==
  \/ WordThenBoundary(s, p, <<"m", "l">>)
  \/ WordThenBoundary(s, p, <<"g">>)
  \/ WordThenBoundary(s, p, <<"k", "g">>)
  \/ WordThenBoundary(s, p, <<"l">>)

\* \d+\s*(ml|g|kg|l)\b at position p
NumberUnitAt(s, p) ==
  /\ IsDigit(At(s, p))
  /\ UnitAt(s, SkipSpaces(s, SkipDigits(s, p)))

\* /(€\s*\/)|(\/\s*€)/
EuroSlash(s) ==
  \E i \in 1..Len(s) :
    \/ s[i] = Euro /\ At(s, SkipSpaces(s, i + 1)) = "/"
    \/ s[i] = "/" /\ At(s, SkipSpaces(s, i + 1)) = Euro

\* /\/\s*\d+\s*(ml|g|kg|l)\b/
SlashNumberUnit(s) ==
  \E i \in 1..Len(s) : s[i] = "/" /\ NumberUnitAt(s, SkipSpaces(s, i + 1))

\* /\bper\s*\d+\s*(ml|g|kg|l)\b/
PerNumberUnit(s) ==
  \E i \in 1..Len(s) :
    /\ ~IsWordChar(At(s, i - 1))
    /\ At(s, i) = "p" /\ At(s, i + 1) = "e" /\ At(s, i + 2) = "r"
    /\ NumberUnitAt(s, SkipSpaces(s, i + 3))

\* /\b(\d+)\s*(ml|g|kg|l)\b/
BoundaryNumberUnit(s) ==
  \E i \in 1..Len(s) : ~IsWordChar(At(s, i - 1)) /\ NumberUnitAt(s, i)

\* the callback of euroLines.filter in variant B: TRUE keeps the line
KeepLine(line) ==
  LET lower == toLowerCase(line)
  IN  /\ ~EuroSlash(lower)
      /\ ~SlashNumberUnit(lower)
      /\ ~PerNumberUnit(lower)
      /\ ~(BoundaryNumberUnit(lower) /\ Includes(lower, "/"))

\* text.split("\n").map(s => s.trim()).filter(s => s.includes("€"))
EuroLines(text) ==
  SelectSeq([i \in 1..Len(SplitLines(text)) |-> trim(SplitLines(text)[i])],
            LAMBDA l : Includes(l, Euro))

\* for (const raw of matches) { val = parseMoney(raw); if (val !== null) prices.push(val) }
RECURSIVE ParseAll(_)
ParseAll(raws) ==
  IF raws = << >> THEN << >>
  ELSE parseMoney(raws[1]) \o ParseAll(Tail(raws))

\* the prices of every text of a list, in order
RECURSIVE PricesOfTexts(_)
PricesOfTexts(texts) ==
  IF texts = << >> THEN << >>
  ELSE ParseAll(AllPriceMatches(texts[1], 1)) \o PricesOfTexts(Tail(texts))

\* Array.from(new Set(prices)): first occurrences, in order
RECURSIVE Dedupe(_)
Dedupe(xs) ==
  IF xs = << >> THEN << >>
  ELSE LET init == Dedupe(SubSeq(xs, 1, Len(xs) - 1))
           x == xs[Len(xs)]
       IN  IF \E i \in 1..Len(init) : init[i] = x THEN init ELSE Append(init, x)

\* xs.sort((a, b) => a - b)
RECURSIVE SortAscending(_)
SortAscending(xs) ==
  IF xs = << >> THEN << >>
  ELSE LET m == CHOOSE i \in 1..Len(xs) : \A j \in 1..Len(xs) : xs[i] <= xs[j]
       IN  <<xs[m]>> \o SortAscending(SubSeq(xs, 1, m - 1) \o SubSeq(xs, m + 1, Len(xs)))

\* xs.sort((a, b) => b - a)
Reverse(xs) == [i \in 1..Len(xs) |-> xs[Len(xs) + 1 - i]]

SortDescending(xs) == Reverse(SortAscending(xs))

PricePair(original, sale) == [price_original |-> original, price_sale |-> sale]

\* the texts variant A collects: the price nodes found by its selectors,
\* then the lines of the card's text that hold the currency marker
TextsA(card) == card.priceNodes \o (IF card.text # << >> THEN EuroLines(card.text) ELSE << >>)

\* the candidate prices of a fragment, before the choice of the pair
CandidatePrices(v, card) ==
  IF v = "A" THEN Dedupe(PricesOfTexts(TextsA(card)))
  ELSE IF card.text = << >> THEN << >>
  ELSE Dedupe(PricesOfTexts(SelectSeq(EuroLines(card.text), KeepLine)))

\* variant A, lines 196-209
ChoosePairA(uniq) ==
  LET sorted == SortDescending(uniq)
  IN  IF Len(sorted) >= 2 THEN PricePair(Some(sorted[1]), Some(sorted[Len(sorted)]))
      ELSE IF Len(sorted) = 1 THEN PricePair(Null, Some(sorted[1]))
      ELSE PricePair(Null, Null)

\* variant B, lines 655-659
ChoosePairB(uniq) ==
  LET sorted == SortAscending(uniq)
  IN  IF Len(sorted) = 0 THEN PricePair(Null, Null)
      ELSE IF Len(sorted) = 1 THEN PricePair(Null, Some(sorted[1]))
      ELSE PricePair(Some(sorted[Len(sorted)]), Some(sorted[1]))

\* the choice with the second candidate taken for the last one
ChoosePair_second(v, uniq) ==
  LET sorted == SortAscending(uniq)
  IN  IF Len(sorted) = 0 THEN PricePair(Null, Null)
      ELSE IF Len(sorted) = 1 THEN PricePair(Null, Some(sorted[1]))
      ELSE PricePair(Some(sorted[2]), Some(sorted[1]))

ChoosePair(v, uniq) == IF v = "A" THEN ChoosePairA(uniq) ELSE ChoosePairB(uniq)

\* extractPricesFromCard(card) of variant v
extractPricesFromCard(v, card) == ChoosePair(v, CandidatePrices(v, card))

(***************************************************************************)
(* The lines a fragment's text is drawn from.                              *)
(***************************************************************************)
\* "EUR 39,99": an item price
LineSale == <<Euro, "3", "9", ",", "9", "9">>

\* "EUR 79,99": an item price
LineOriginal == <<Euro, "7", "9", ",", "9", "9">>

\* "EUR 0,40 / 100 g": a unit price: '/ 100 g'
LineUnit100g == <<Euro, "0", ",", "4", "0", " ", "/", " ", "1", "0", "0", " ", "g">>

\* " 59.99 EUR ": an item price, marker after it, dot decimal, leading blank
LineSuffixed == <<" ", "5", "9", ".", "9", "9", " ", Euro>>

\* "EUR 8,50": an item price below the floor of variant B
LineCheap == <<Euro, "8", ",", "5", "0">>

\* "1,99 EUR /l": a unit price: the marker next to '/'
LineUnitPerL == <<"1", ",", "9", "9", " ", Euro, "/", "l">>

\* "Sneaker 12,00": a line without the currency marker
LineTitle == <<"S", "n", "e", "a", "k", "e", "r", " ", "1", "2", ",", "0", "0">>

\* "EUR 0,30/kg": a unit price: '/kg' with no number before the unit
LineUnitKg == <<Euro, "0", ",", "3", "0", "/", "k", "g">>

\* "50 ML EUR 12,99": the marker together with a unit token, no divider
LineSize == <<"5", "0", " ", "M", "L", " ", Euro, "1", "2", ",", "9", "9">>

\* "EUR 1.234,56": an item price with a grouping separator
LineGrouped == <<Euro, "1", ".", "2", "3", "4", ",", "5", "6">>

\* "EUR 0,25 per 100 ml": a unit price: 'per 100 ml'
LineUnitPer == <<Euro, "0", ",", "2", "5", " ", "p", "e", "r", " ", "1", "0", "0", " ", "m", "l">>

\* "EUR 29,99 - EUR 49,99": two item prices on one line
LineRange == <<Euro, "2", "9", ",", "9", "9", " ", "-", " ", Euro, "4", "9", ",", "9", "9">>

PriceLines == {LineRange, LineSale, LineOriginal, LineUnit100g, LineSuffixed, LineCheap, LineUnitPerL, LineTitle, LineUnitKg, LineSize, LineGrouped, LineUnitPer}

MaxLines == 2

\* lines.join("\n")
RECURSIVE JoinLines(_)
JoinLines(ls) ==
  IF ls = << >> THEN << >>
  ELSE IF Len(ls) = 1 THEN ls[1]
  ELSE ls[1] \o <<"\n">> \o JoinLines(Tail(ls))

SeqsUpTo(S, n) == UNION {[1..k -> S] : k \in 0..n}

FragmentTexts == {JoinLines(ls) : ls \in SeqsUpTo(PriceLines, MaxLines)}

\* content of <meta itemprop="price">
MetaContent == <<"3", "9", ".", "9", "9">>

\* What the selector loop of variant A (lines 159-173) pushes for a fragment
\* with the given text: nothing, the text of an enclosing price node, or the
\* content attribute of a meta element.
PriceNodeChoices(text) ==
  {<< >>, <<MetaContent>>} \cup (IF text # << >> THEN {<<text>>} ELSE {})

InitPrices ==
  /\ variant \in Variants
  /\ PipelineIdle
  /\ scroll = NotScrolling
  /\ \E text \in FragmentTexts : \E nodes \in PriceNodeChoices(text) :
       callArgs = [fn |-> "extractPricesFromCard",
                   card |-> [text |-> text, priceNodes |-> nodes]]
  /\ callRet = Null

CallExtractPrices ==
  /\ callArgs.fn = "extractPricesFromCard"
  /\ callRet = Null
  /\ callRet' = Some(extractPricesFromCard(variant, callArgs.card))
  /\ UNCHANGED <<variant, callArgs, pipelineVars, scroll>>

NextPrices == CallExtractPrices

SpecPrices == InitPrices /\ [][NextPrices]_vars

SeqToSet(xs) == {xs[i] : i \in 1..Len(xs)}

SetMin(S) == CHOOSE x \in S : \A y \in S : x <= y

SetMax(S) == CHOOSE x \in S : \A y \in S : x >= y

\* C8: with the deduplicated candidate prices of the fragment,
\* extractPricesFromCard returns {original: null, sale: null} for none,
\* {original: null, sale: c} for exactly one candidate c, and for two or more
\* sale = the minimum and original = the maximum.
C8_PairFromCandidates ==
  (callArgs.fn = "extractPricesFromCard" /\ callRet # Null) =>
    LET cands == SeqToSet(CandidatePrices(variant, callArgs.card))
        r == callRet[1]
    IN  /\ cands = {} => r = PricePair(Null, Null)
        /\ Cardinality(cands) = 1 => r = PricePair(Null, Some(SetMin(cands)))
        /\ Cardinality(cands) >= 2 =>
             r = PricePair(Some(SetMax(cands)), Some(SetMin(cands)))

\* C8 witness: a fragment with three candidates, the middle one discarded.
C8_Witness ==
  /\ callArgs.fn = "extractPricesFromCard"
  /\ callRet # Null
  /\ Cardinality(SeqToSet(CandidatePrices(variant, callArgs.card))) >= 3
  /\ callRet[1].price_sale = Some(SetMin(SeqToSet(CandidatePrices(variant, callArgs.card))))
  /\ callRet[1].price_original = Some(SetMax(SeqToSet(CandidatePrices(variant, callArgs.card))))

\* A unit token of the claim: ml, g, kg or l as a word of its own, after a
\* number, a blank or the divider.
HasUnitToken(s) ==
  \E p \in 1..Len(s) :
    /\ UnitAt(s, p)
    /\ At(s, p - 1) \notin Range(LowerLetters)

\* A unit-price line as the claim words it: the currency marker adjacent to
\* a '/' divider, or the currency marker together with a unit token.
IsUnitPriceLine(line) ==
  LET lower == toLowerCase(line)
  IN  /\ Includes(lower, Euro)
      /\ EuroSlash(lower) \/ HasUnitToken(lower)

\* the lines of every text the fragment offers, trimmed
AllLines(card) ==
  LET texts == card.priceNodes \o <<card.text>>
      LinesOf(t) == [i \in 1..Len(SplitLines(t)) |-> trim(SplitLines(t)[i])]
  IN  UNION {SeqToSet(LinesOf(texts[k])) : k \in 1..Len(texts)}

\* the prices found on the lines that are no unit-price lines
ItemPrices(card) ==
  UNION {SeqToSet(ParseAll(AllPriceMatches(l, 1))) :
           l \in {m \in AllLines(card) : ~IsUnitPriceLine(m)}}

\* C7: no price that is found only on unit-price lines of the fragment
\* becomes the price_sale or the price_original that extractPricesFromCard
\* returns: both come from the lines that are no unit-price lines.
C7_UnitPricesNeverContribute ==
  (callArgs.fn = "extractPricesFromCard" /\ callRet # Null) =>
    /\ SeqToSet(callRet[1].price_sale) \subseteq ItemPrices(callArgs.card)
    /\ SeqToSet(callRet[1].price_original) \subseteq ItemPrices(callArgs.card)

(***************************************************************************)
(* URLs.  A URL string is the sequence of its parts: the origin, the path  *)
(* and, when it has a query, "?" and the query.  An href is such a         *)
(* sequence too; it may lack the origin (a path-absolute reference).       *)
(***************************************************************************)
ZalandoOrigin == "https://www.zalando.it"

Origins == {ZalandoOrigin, "https://cdn.example"}

\* CATEGORY_URLS of variant A (lines 4-8) and of variant B (lines 369-373)
CATEGORY_URLS(v) ==
  IF v = "A"
    THEN << <<ZalandoOrigin, "/promo-scarpe-uomo/">>,
            <<ZalandoOrigin, "/promo-abbigliamento-bambini/">>,
            <<ZalandoOrigin, "/beauty-donna/">> >>
    ELSE << <<ZalandoOrigin, "/occhiali-sole-donna/", "?", "order=sale">>,
            <<ZalandoOrigin, "/scarpe-donna/", "?", "order=sale">> >>

\* an href no base can resolve: new URL("//", base) throws
BadHref == <<"//">>

IsAbsoluteUrl(u) == u # << >> /\ u[1] \in Origins

\* new URL(href, baseUrl) throws
UrlThrows(href) == href = BadHref

\* new URL(href, baseUrl).toString(), for an href that resolves
ResolveUrl(href, baseUrl) == IF IsAbsoluteUrl(href) THEN href ELSE <<baseUrl[1]>> \o href

\* product_url.split("?")[0]
BeforeQuery(u) ==
  IF \E i \in 1..Len(u) : u[i] = "?"
    THEN SubSeq(u, 1, (CHOOSE i \in 1..Len(u) : u[i] = "?" /\ \A j \in 1..(i-1) : u[j] # "?") - 1)
    ELSE u

(***************************************************************************)
(* safeText and the title of a fragment.                                   *)
(***************************************************************************)
\* s.replace(/\s+/g, " ")
RECURSIVE CollapseSpaces(_)
CollapseSpaces(s) ==
  IF s = << >> THEN << >>
  ELSE IF IsSpace(s[1])
    THEN <<" ">> \o CollapseSpaces(SubSeq(s, SkipSpaces(s, 1), Len(s)))
    ELSE <<s[1]>> \o CollapseSpaces(Tail(s))

\* safeText(s); s is << >> (null or undefined) or <<text>>
safeText(s) == IF s = Null THEN << >> ELSE trim(CollapseSpaces(s[1]))

RECURSIVE Concat(_)
Concat(ts) == IF ts = << >> THEN << >> ELSE ts[1] \o Concat(Tail(ts))

\* card.$eval("h3", el => el.textContent).catch(() => "")
H3Text(card) == IF card.h3 = Null THEN Some(<< >>) ELSE Some(Concat(card.h3[1].spans))

\* card.$eval("h3 span:nth-child(2)", ...).catch(() => "")
H3SecondSpan(card) ==
  IF card.h3 # Null /\ Len(card.h3[1].spans) >= 2 THEN Some(card.h3[1].spans[2]) ELSE Some(<< >>)

\* card.$eval("header h3 span:nth-child(2)", ...).catch(() => "")
HeaderH3SecondSpan(card) ==
  IF card.h3 # Null /\ card.h3[1].inHeader THEN H3SecondSpan(card) ELSE Some(<< >>)

\* card.$eval('[data-testid="product-card__title"]', ...).catch(() => "")
TitleMarkup(card) == IF card.titleEl = Null THEN Some(<< >>) ELSE card.titleEl

\* card.$eval("img[alt]", el => el.getAttribute("alt")).catch(() => "")
ImgAlt(card) == IF card.imgAlt = Null THEN Some(<< >>) ELSE card.imgAlt

\* a || b for strings
OrElse(a, b) == IF a # << >> THEN a ELSE b

\* the strategies with the whole heading text tried before the image alt text
TitleStrategies_headingFirst(v, card) ==
  IF v = "A"
    THEN <<TitleMarkup(card), H3Text(card), ImgAlt(card)>>
    ELSE <<TitleMarkup(card), HeaderH3SecondSpan(card), H3SecondSpan(card),
           H3Text(card), ImgAlt(card)>>

\* the title strategies in the order the variant tries them
TitleStrategies(v, card) ==
  IF v = "A"
    THEN <<TitleMarkup(card), ImgAlt(card), H3Text(card)>>
    ELSE <<TitleMarkup(card), HeaderH3SecondSpan(card), H3SecondSpan(card),
           ImgAlt(card), H3Text(card)>>

RECURSIVE FirstNonEmpty(_)
FirstNonEmpty(ts) ==
  IF ts = << >> THEN << >> ELSE OrElse(safeText(ts[1]), FirstNonEmpty(Tail(ts)))

Title(v, card) == FirstNonEmpty(TitleStrategies(v, card))

(***************************************************************************)
(* extractCardData.  The result is [threw, val]: val is << >> for null and *)
(* <<record>> for a record.  brand, image_url and scraped_at are copied    *)
(* into the record and decide nothing; they are left out.                  *)
(***************************************************************************)
MIN_DISCOUNT_PERCENT == 35

MIN_SALE_PRICE == 10

Returned(val) == [threw |-> FALSE, val |-> val]

Threw == [threw |-> TRUE, val |-> Null]

\* the check with the title left out
RequiredMissing_noTitle(title, product_url, price_sale) ==
  \/ product_url = Null
  \/ price_sale = Null \/ price_sale[1] = 0

\* !title || !product_url || !price_sale
RequiredMissing(title, product_url, price_sale) ==
  \/ title = << >>
  \/ product_url = Null
  \/ price_sale = Null \/ price_sale[1] = 0

\* the discount of variant B, lines 692-695
GuardedDiscount(price_original, price_sale) ==
  IF /\ price_original # Null /\ price_original[1] # 0
     /\ price_sale # Null /\ price_sale[1] # 0
     /\ price_original[1] > price_sale[1]
    THEN computeDiscount(price_original, price_sale)
    ELSE 0

\* the floors with the discount floor left out
BelowFloors_priceOnly(price_sale, discount_percent) ==
  price_sale[1] < MIN_SALE_PRICE * 100

\* price_sale < MIN_SALE_PRICE, or discount_percent < MIN_DISCOUNT_PERCENT (variant B)
BelowFloors(price_sale, discount_percent) ==
  \/ price_sale[1] < MIN_SALE_PRICE * 100
  \/ discount_percent < MIN_DISCOUNT_PERCENT

ProductRecord(title, product_url, prices, discount_percent, baseUrl) ==
  [id |-> BeforeQuery(product_url),
   title |-> title,
   price_sale |-> prices.price_sale[1],
   price_original |-> prices.price_original,
   discount_percent |-> discount_percent,
   product_url |-> product_url,
   source_category |-> baseUrl]

\* extractCardData(card, baseUrl) of variant v
extractCardData(v, card, baseUrl) ==
  IF card.href # Null /\ UrlThrows(card.href[1]) THEN Threw
  ELSE
    LET product_url == IF card.href # Null THEN Some(ResolveUrl(card.href[1], baseUrl)) ELSE Null
        title == Title(v, card)
        prices == extractPricesFromCard(v, card)
        discount_percent ==
          IF v = "A" THEN computeDiscount(prices.price_original, prices.price_sale)
          ELSE GuardedDiscount(prices.price_original, prices.price_sale)
    IN  IF RequiredMissing(title, product_url, prices.price_sale) THEN Returned(Null)
        ELSE IF v = "B" /\ BelowFloors(prices.price_sale, discount_percent) THEN Returned(Null)
        ELSE Returned(Some(ProductRecord(title, product_url[1], prices, discount_percent, baseUrl)))

(***************************************************************************)
(* Specification of extractCardData alone: a fragment is drawn, then       *)
(* extracted against one of the variant's category URLs.                   *)
(***************************************************************************)
Hrefs ==
  {Null,
   Some(<<"/p/abc123", "?", "q=1">>),
   Some(<<"/p/abc123">>),
   Some(<<"https://cdn.example", "/p/xyz9">>),
   Some(BadHref)}

TextSneaker == <<"S", "n", "e", "a", "k", "e", "r", " ", " ", "M", "o", "d", "e", "l">>

TextBrand == <<"B", "r", "a", "n", "d", " ", "X">>

TextRun == <<"R", "u", "n", " ", "2">>

TextBlank == <<" ", "\n">>

TitleEls == {Null, Some(TextBlank), Some(TextSneaker)}

H3s ==
  {Null,
   Some([inHeader |-> TRUE, spans |-> <<TextBrand, TextRun>>]),
   Some([inHeader |-> FALSE, spans |-> <<TextBrand, TextRun>>]),
   Some([inHeader |-> FALSE, spans |-> <<TextBrand>>])}

ImgAlts == {Null, Some(<< >>), Some(<<"A", "l", "t", " ", "t", "e", "x", "t">>)}

\* "EUR 0,00"
LineZero == <<Euro, "0", ",", "0", "0">>

\* "EUR 10,00": an item price at the floor of variant B
LineTen == <<Euro, "1", "0", ",", "0", "0">>

\* "EUR 3.000,00": three hundred times LineTen
LineThousands == <<Euro, "3", ".", "0", "0", "0", ",", "0", "0">>

CardTexts ==
  {<< >>,
   JoinLines(<<LineTen, LineThousands>>),
   LineSale,
   LineCheap,
   LineZero,
   JoinLines(<<LineSale, LineOriginal>>),
   JoinLines(<<LineSuffixed, LineOriginal>>),
   JoinLines(<<LineCheap, LineOriginal>>),
   JoinLines(<<TextBrand, TextSneaker, LineSale, LineOriginal, LineUnit100g>>)}

Cards ==
  UNION {[href : Hrefs, titleEl : TitleEls, h3 : H3s, imgAlt : ImgAlts,
          text : {t}, priceNodes : PriceNodeChoices(t)] : t \in CardTexts}

InitCard ==
  /\ variant \in Variants
  /\ PipelineIdle
  /\ scroll = NotScrolling
  /\ \E card \in Cards : \E k \in 1..Len(CATEGORY_URLS(variant)) :
       callArgs = [fn |-> "extractCardData", card |-> card,
                   baseUrl |-> CATEGORY_URLS(variant)[k]]
  /\ callRet = Null

CallExtractCardData ==
  /\ callArgs.fn = "extractCardData"
  /\ callRet = Null
  /\ callRet' = Some(extractCardData(variant, callArgs.card, callArgs.baseUrl))
  /\ UNCHANGED <<variant, callArgs, pipelineVars, scroll>>

NextCard == CallExtractCardData

SpecCard == InitCard /\ [][NextCard]_vars

\* the record extractCardData returned, if it returned one
ReturnedRecord == callRet[1].val[1]

HasReturnedRecord ==
  callArgs.fn = "extractCardData" /\ callRet # Null /\ callRet[1].val # Null

C14_DiscountBelow100 ==
  (HasReturnedRecord /\ variant = "B") =>
    /\ ReturnedRecord.price_original # Null
    /\ ReturnedRecord.price_original[1] > ReturnedRecord.price_sale
    /\ ReturnedRecord.discount_percent >= MIN_DISCOUNT_PERCENT
    /\ ReturnedRecord.discount_percent <= 99
    /\ Len(CandidatePrices(variant, callArgs.card)) >= 2

\* C14 amended: in the variant with the floors, every record returned by
\* extractCardData has a price_original, greater than its price_sale, a
\* discount_percent from 35 to 100, and comes from a fragment with at least
\* two candidate prices: a fragment with one candidate is never emitted.
C14_FloorsImplyOriginal ==
  (HasReturnedRecord /\ variant = "B") =>
    /\ ReturnedRecord.price_original # Null
    /\ ReturnedRecord.price_original[1] > ReturnedRecord.price_sale
    /\ ReturnedRecord.discount_percent >= MIN_DISCOUNT_PERCENT
    /\ ReturnedRecord.discount_percent <= 100
    /\ Len(CandidatePrices(variant, callArgs.card)) >= 2

\* C14 witness: variant B returned a record whose original price is three
\* hundred times its sale price of 10,00: the discount rounds to 100.
C14_Witness ==
  /\ HasReturnedRecord
  /\ variant = "B"
  /\ ReturnedRecord.price_sale = MIN_SALE_PRICE * 100
  /\ ReturnedRecord.price_original = Some(300000)
  /\ ReturnedRecord.discount_percent = 100

(***************************************************************************)
(* Specification of the title expression of extractCardData alone.         *)
(***************************************************************************)
\* headings beside those of H3s: one span in a header, a blank second span
TitleH3s ==
  H3s \cup {Some([inHeader |-> TRUE, spans |-> <<TextBrand>>]),
            Some([inHeader |-> TRUE, spans |-> <<TextBrand, TextBlank>>])}

InitTitle ==
  /\ variant \in Variants
  /\ PipelineIdle
  /\ scroll = NotScrolling
  /\ callArgs \in [fn : {"title"}, card : [titleEl : TitleEls, h3 : TitleH3s, imgAlt : ImgAlts]]
  /\ callRet = Null

CallTitle ==
  /\ callArgs.fn = "title"
  /\ callRet = Null
  /\ callRet' = Some(Title(variant, callArgs.card))
  /\ UNCHANGED <<variant, callArgs, pipelineVars, scroll>>

NextTitle == CallTitle

SpecTitle == InitTitle /\ [][NextTitle]_vars

HasTitle == callArgs.fn = "title" /\ callRet # Null

\* the normalized results of the strategies for the card of the call
MarkupTitle == safeText(TitleMarkup(callArgs.card))

SecondSpanTitle == safeText(H3SecondSpan(callArgs.card))

HeadingTitle == safeText(H3Text(callArgs.card))

AltTitle == safeText(ImgAlt(callArgs.card))

\* C13 as claimed: the title is the title markup when that is not empty,
\* else the heading text (its second span where the variant looks for it,
\* else the whole heading) when that is not empty, else the image alt text:
\* the alt text is the title only when markup and heading are both empty.
C13_AltOnlyAfterHeadings ==
  HasTitle =>
    LET heading == IF variant = "B" /\ SecondSpanTitle # << >>
                     THEN SecondSpanTitle ELSE HeadingTitle
    IN  /\ MarkupTitle # << >> => callRet[1] = MarkupTitle
        /\ (MarkupTitle = << >> /\ heading # << >>) => callRet[1] = heading
        /\ (MarkupTitle = << >> /\ heading = << >>) => callRet[1] = AltTitle

\* C13 amended: the title is the title markup when that is not empty; else,
\* in variant B, the second span of the heading when that is not empty;
\* else the image alt text when that is not empty; else the whole heading
\* text.  Every result is whitespace-normalized, and the title is empty
\* only if all of them are.
C13_TitleOrder ==
  HasTitle =>
    LET span == IF variant = "B" THEN SecondSpanTitle ELSE << >>
    IN  /\ MarkupTitle # << >> => callRet[1] = MarkupTitle
        /\ (MarkupTitle = << >> /\ span # << >>) => callRet[1] = span
        /\ (MarkupTitle = << >> /\ span = << >> /\ AltTitle # << >>)
             => callRet[1] = AltTitle
        /\ (MarkupTitle = << >> /\ span = << >> /\ AltTitle = << >>)
             => callRet[1] = HeadingTitle
        /\ callRet[1] = << >> =>
             MarkupTitle = << >> /\ SecondSpanTitle = << >> /\ AltTitle = << >>
               /\ HeadingTitle = << >>
        /\ callRet[1] = trim(CollapseSpaces(callRet[1]))

\* C13 witness: the title markup is blank, the heading has text but no
\* second span, and the title is the image alt text.
C13_Witness ==
  /\ HasTitle
  /\ callArgs.card.titleEl = Some(TextBlank)
  /\ HeadingTitle # << >>
  /\ SecondSpanTitle = << >>
  /\ AltTitle # << >>
  /\ callRet[1] = AltTitle

(***************************************************************************)
(* The rendered page of a category.                                        *)
(*   url      page.url() after the navigation, as text                     *)
(*   kind     the selector the page's listing entries match                *)
(*   cards    the handles of the listing entries, in document order        *)
(*   links    the number of elements matching 'main a[href*="/"]:has(img)' *)
(***************************************************************************)
MaxCards == 2

MAX_ITEMS_PER_CATEGORY == 80

NavTries == 3

UrlListing == <<"/", "s", "c", "a", "r", "p", "e", "-", "d", "o", "n", "n", "a", "/">>

UrlCountries == <<"/", "c", "o", "u", "n", "t", "r", "i", "e", "s", "/">>

UrlChooseCountry == <<"/", "C", "h", "o", "o", "s", "e", "-", "C", "o", "u", "n", "t", "r", "y">>

UrlNotAvailable == <<"/", "i", "t", "/", "n", "o", "t", "-", "A", "v", "a", "i", "l", "a", "b", "l", "e">>

GateUrls == {UrlCountries, UrlChooseCountry, UrlNotAvailable}

\* s contains w
Contains(s, w) ==
  \E i \in 1..(Len(s) - Len(w) + 1) : \A j \in 1..Len(w) : s[i + j - 1] = w[j]

GateWords ==
  {<<"c", "o", "u", "n", "t", "r", "i", "e", "s">>, <<"c", "o", "u", "n", "t", "r", "y">>,
   <<"a", "v", "a", "i", "l", "a", "b", "l", "e">>, <<"c", "h", "o", "o", "s", "e">>}

\* the test without the i flag
IsGate_caseSensitive(landed) == \E w \in GateWords : Contains(landed, w)

\* /countries|country|available|choose/i.test(landed)
IsGate(landed) == \E w \in GateWords : Contains(toLowerCase(landed), w)

CardSelectors == <<"product-card", "article", "li">>

\* the four candidates of waitForProducts, in order
ProductSelectors == <<"product-card", "article", "li", "main-link">>

\* a fragment with a relative href and a query: valid in both variants
CardSneaker ==
  [href |-> Some(<<"/p/abc123", "?", "q=1">>), titleEl |-> Some(TextSneaker), h3 |-> Null,
   imgAlt |-> Null, text |-> JoinLines(<<LineSale, LineOriginal>>), priceNodes |-> << >>]

\* the same product without the query, another title and other prices
CardSneakerAgain ==
  [href |-> Some(<<"/p/abc123">>), titleEl |-> Null, h3 |-> Null,
   imgAlt |-> Some(<<"A", "l", "t", " ", "t", "e", "x", "t">>), text |-> JoinLines(<<LineRange, LineOriginal>>),
   priceNodes |-> << >>]

\* a fragment whose href cannot be resolved
CardBadHref ==
  [href |-> Some(BadHref), titleEl |-> Some(TextSneaker), h3 |-> Null,
   imgAlt |-> Null, text |-> JoinLines(<<LineSale, LineOriginal>>), priceNodes |-> << >>]

\* a fragment below the floors of variant B
CardCheap ==
  [href |-> Some(<<"https://cdn.example", "/p/xyz9">>), titleEl |-> Some(TextSneaker),
   h3 |-> Null, imgAlt |-> Null, text |-> LineCheap, priceNodes |-> << >>]

\* A page holds handles of its listing entries; Fragment(h) is the entry
\* behind the handle h.
PageCards == {"sneaker", "sneakerAgain", "badHref", "cheap"}

Fragment(h) ==
  CASE h = "sneaker" -> CardSneaker
    [] h = "sneakerAgain" -> CardSneakerAgain
    [] h = "badHref" -> CardBadHref
    [] h = "cheap" -> CardCheap

\* Listing pages hold up to MaxCards product cards; a page whose entries are
\* articles or list items holds one.  A gate page holds none, or one with
\* enough links for waitForProducts to find.
Pages ==
  [url : GateUrls, kind : {"product-card"}, cards : {<< >>}, links : {0}]
    \cup [url : GateUrls, kind : {"product-card"}, cards : {<<"sneaker">>}, links : {6}]
    \cup [url : {UrlListing}, kind : {"product-card"},
          cards : SeqsUpTo(PageCards, MaxCards), links : {0, 6}]
    \cup [url : {UrlListing}, kind : {"article", "li"},
          cards : {<<"sneaker">>}, links : {0, 6}]

\* the pages whose landed URL matches the gate pattern, and the others
\* (written as images so that each set is enumerated once)
GatePages == {p : p \in {q \in Pages : IsGate(q.url)}}

ListingPages == {p : p \in {q \in Pages : ~IsGate(q.url)}}

\* loc.count() of a selector on the page
SelectorCount(p, sel) ==
  IF sel = "main-link" THEN p.links
  ELSE IF sel = p.kind THEN Len(p.cards)
  ELSE 0

\* waitForProducts(page): the first candidate with more than 5 matches, or << >>
RECURSIVE FirstSelector(_, _)
FirstSelector(p, i) ==
  IF i > Len(ProductSelectors) THEN Null
  ELSE IF SelectorCount(p, ProductSelectors[i]) > 5 THEN Some(ProductSelectors[i])
  ELSE FirstSelector(p, i + 1)

waitForProducts(p) == FirstSelector(p, 1)

\* page.$$(sel) for one of the card selectors
QueryAll(p, sel) == IF sel = p.kind THEN p.cards ELSE << >>

\* cards.slice(0, maxCards) as scrapeCategory reads cards after scrollToLoad:
\* product cards, else articles, else list items
CardsToExtract(p) ==
  LET byTestId == QueryAll(p, "product-card")
      orArticle == IF Len(byTestId) = 0 THEN QueryAll(p, "article") ELSE byTestId
      orLi == IF Len(orArticle) = 0 THEN QueryAll(p, "li") ELSE orArticle
  IN  SubSeq(orLi, 1, Min(Len(orLi), MAX_ITEMS_PER_CATEGORY))

(***************************************************************************)
(* main's deduplication: a Map keeps its keys in insertion order.          *)
(***************************************************************************)
\* map.set(p.id, p) for every p, also when the id is already there
RECURSIVE Deduplicate_lastWins(_)
Deduplicate_lastWins(ps) ==
  IF ps = << >> THEN << >>
  ELSE LET init == Deduplicate_lastWins(SubSeq(ps, 1, Len(ps) - 1))
           q == ps[Len(ps)]
       IN  IF \E i \in 1..Len(init) : init[i].id = q.id
             THEN [i \in 1..Len(init) |-> IF init[i].id = q.id THEN q ELSE init[i]]
             ELSE Append(init, q)

\* for (const p of all) if (!map.has(p.id)) map.set(p.id, p);
\* Array.from(map.values())
RECURSIVE Deduplicate(_)
Deduplicate(ps) ==
  IF ps = << >> THEN << >>
  ELSE LET init == Deduplicate(SubSeq(ps, 1, Len(ps) - 1))
           q == ps[Len(ps)]
       IN  IF \E i \in 1..Len(init) : init[i].id = q.id THEN init ELSE Append(init, q)

(***************************************************************************)
(* The pipeline: main, scrapeCategory and gotoWithRetry.                   *)
(*                                                                         *)
(* pc  "main"             main, at the head of the loop over CATEGORY_URLS *)
(*     "goto"             gotoWithRetry, at the head of its loop           *)
(*     "navFailed"        gotoWithRetry threw lastErr                      *)
(*     "landed"           gotoWithRetry returned                           *)
(*     "waitForProducts"  scrapeCategory before waitForProducts            *)
(*     "scrollToLoad"     scrapeCategory before scrollToLoad               *)
(*     "extract"          scrapeCategory in the loop over the cards        *)
(*     "returned"         scrapeCategory returned results                  *)
(*     "threw"            scrapeCategory threw                             *)
(*     "done"             main wrote the deduplicated output               *)
(***************************************************************************)
NumCategories == Len(CATEGORY_URLS(variant))

CategoryUrl == CATEGORY_URLS(variant)[catIdx]

\* lastErr = e, kept only from the first failure
NextLastErr_first(err, i) == IF err = Null THEN Some(i) ELSE err

\* lastErr = e in the catch of attempt i; the error of attempt i is i
NextLastErr(err, i) == Some(i)

\* scrapeCategory lets the navigation error through
OnNavFailed_rethrow == "threw"

\* scrapeCategory's catch around gotoWithRetry: debugDump, return []
OnNavFailed == "returned"

Init ==
  /\ variant \in Variants
  /\ pc = "main"
  /\ catIdx = 0
  /\ gotoI = 0
  /\ lastErr = Null
  /\ page = Null
  /\ cardIdx = 0
  /\ results = << >>
  /\ all = << >>
  /\ unique = << >>
  /\ trace = << >>
  /\ outcome = << >>
  /\ callArgs = Idle
  /\ callRet = Null
  /\ scroll = NotScrolling

\* main: the next url of CATEGORY_URLS; scrapeCategory calls gotoWithRetry(page, url, 3)
StartCategory ==
  /\ pc = "main"
  /\ catIdx < NumCategories
  /\ catIdx' = catIdx + 1
  /\ pc' = "goto"
  /\ gotoI' = 1
  /\ lastErr' = Null
  /\ page' = Null
  /\ cardIdx' = 0
  /\ results' = << >>
  /\ trace' = << >>
  /\ UNCHANGED <<variant, all, unique, outcome, callArgs, callRet, scroll>>

\* gotoWithRetry: attempt i, page.goto rejects; catch, back off, next i
GotoFails ==
  /\ pc = "goto"
  /\ gotoI <= NavTries
  /\ lastErr' = NextLastErr(lastErr, gotoI)
  /\ gotoI' = gotoI + 1
  /\ trace' = Append(trace, "goto:failed")
  /\ UNCHANGED <<variant, pc, catIdx, page, cardIdx, results, all, unique, outcome,
                 callArgs, callRet, scroll>>

StabilizationLog(dcl, idle) ==
  <<IF dcl THEN "domcontentloaded:ok" ELSE "domcontentloaded:failed",
    IF idle THEN "networkidle:ok" ELSE "networkidle:failed">>

\* gotoWithRetry: attempt i, page.goto resolves; the two load-state waits
\* resolve or reject (caught); return
GotoSucceeds ==
  /\ pc = "goto"
  /\ gotoI <= NavTries
  /\ \E dcl \in BOOLEAN, idle \in BOOLEAN :
       trace' = Append(trace, "goto:ok") \o StabilizationLog(dcl, idle)
  /\ pc' = "landed"
  /\ UNCHANGED <<variant, catIdx, gotoI, lastErr, page, cardIdx, results, all, unique,
                 outcome, callArgs, callRet, scroll>>

\* gotoWithRetry: the loop is over, throw lastErr
GotoExhausted ==
  /\ pc = "goto"
  /\ gotoI > NavTries
  /\ pc' = "navFailed"
  /\ UNCHANGED <<variant, catIdx, gotoI, lastErr, page, cardIdx, results, all, unique,
                 trace, outcome, callArgs, callRet, scroll>>

\* scrapeCategory: catch of the navigation error
NavFailedReturn ==
  /\ pc = "navFailed"
  /\ trace' = Append(trace, "debugDump")
  /\ pc' = OnNavFailed
  /\ UNCHANGED <<variant, catIdx, gotoI, lastErr, page, cardIdx, results, all, unique,
                 outcome, callArgs, callRet, scroll>>

\* scrapeCategory: acceptCookies (it never throws), then the landed URL
\* matches the gate pattern: debugDump, return [].  The page is what the
\* navigation loaded; gotoWithRetry's locals are gone and trace starts again
\* with scrapeCategory's own calls.
GateRedirect ==
  /\ pc = "landed"
  /\ \E p \in GatePages : page' = Some(p)
  /\ trace' = <<"acceptCookies", "debugDump">>
  /\ pc' = "returned"
  /\ gotoI' = 0
  /\ lastErr' = Null
  /\ UNCHANGED <<variant, catIdx, cardIdx, results, all, unique, outcome, callArgs, callRet, scroll>>

\* scrapeCategory: acceptCookies, the landed URL is no gate
NoGate ==
  /\ pc = "landed"
  /\ \E p \in ListingPages : page' = Some(p)
  /\ trace' = <<"acceptCookies">>
  /\ pc' = "waitForProducts"
  /\ gotoI' = 0
  /\ lastErr' = Null
  /\ UNCHANGED <<variant, catIdx, cardIdx, results, all, unique, outcome, callArgs, callRet, scroll>>

\* scrapeCategory: waitForProducts found no selector: debugDump, return []
NoProducts ==
  /\ pc = "waitForProducts"
  /\ waitForProducts(page[1]) = Null
  /\ trace' = trace \o <<"waitForProducts", "debugDump">>
  /\ pc' = "returned"
  /\ UNCHANGED <<variant, catIdx, gotoI, lastErr, page, cardIdx, results, all, unique,
                 outcome, callArgs, callRet, scroll>>

\* scrapeCategory: waitForProducts found a selector
ProductsFound ==
  /\ pc = "waitForProducts"
  /\ waitForProducts(page[1]) # Null
  /\ trace' = Append(trace, "waitForProducts")
  /\ pc' = "scrollToLoad"
  /\ UNCHANGED <<variant, catIdx, gotoI, lastErr, page, cardIdx, results, all, unique,
                 outcome, callArgs, callRet, scroll>>

\* scrapeCategory: scrollToLoad(page, maxCards); page.cards is the list the
\* queries after it return
ScrollToLoad ==
  /\ pc = "scrollToLoad"
  /\ trace' = Append(trace, "scrollToLoad")
  /\ pc' = "extract"
  /\ cardIdx' = 1
  /\ UNCHANGED <<variant, catIdx, gotoI, lastErr, page, results, all, unique, outcome,
                 callArgs, callRet, scroll>>

\* scrapeCategory: one turn of the loop over the cards
ExtractCard ==
  /\ pc = "extract"
  /\ cardIdx <= Len(CardsToExtract(page[1]))
  /\ LET item == extractCardData(variant, Fragment(CardsToExtract(page[1])[cardIdx]),
                                  CategoryUrl)
     IN  /\ pc' = IF item.threw THEN "threw" ELSE "extract"
         /\ results' = IF ~item.threw /\ item.val # Null
                         THEN Append(results, item.val[1]) ELSE results
  /\ cardIdx' = cardIdx + 1
  /\ trace' = Append(trace, "extractCardData")
  /\ UNCHANGED <<variant, catIdx, gotoI, lastErr, page, all, unique, outcome,
                 callArgs, callRet, scroll>>

\* scrapeCategory: the loop is over; debugDump if results is empty; return results
ReturnResults ==
  /\ pc = "extract"
  /\ cardIdx > Len(CardsToExtract(page[1]))
  /\ trace' = IF results = << >> THEN Append(trace, "debugDump") ELSE trace
  /\ pc' = "returned"
  /\ UNCHANGED <<variant, catIdx, gotoI, lastErr, page, cardIdx, results, all, unique,
                 outcome, callArgs, callRet, scroll>>

\* how the category ended, from the calls made for it
OutcomeKind ==
  IF \E i \in 1..Len(trace) : trace[i] = "scrollToLoad" THEN "extracted"
  ELSE IF \E i \in 1..Len(trace) : trace[i] = "waitForProducts" THEN "noProducts"
  ELSE IF \E i \in 1..Len(trace) : trace[i] = "acceptCookies" THEN "gate"
  ELSE "navFailed"

\* main: all.push(...items)
PushItems ==
  /\ pc = "returned"
  /\ all' = all \o results
  /\ outcome' = Append(outcome, [kind |-> OutcomeKind, returned |-> TRUE, items |-> results])
  /\ pc' = "main"
  /\ trace' = << >>
  /\ page' = Null
  /\ results' = << >>
  /\ gotoI' = 0
  /\ lastErr' = Null
  /\ cardIdx' = 0
  /\ UNCHANGED <<variant, catIdx, unique, callArgs, callRet, scroll>>

\* main: catch (e) { console.error("Failed category") }
CatchCategory ==
  /\ pc = "threw"
  /\ outcome' = Append(outcome, [kind |-> OutcomeKind, returned |-> FALSE, items |-> << >>])
  /\ pc' = "main"
  /\ trace' = << >>
  /\ page' = Null
  /\ results' = << >>
  /\ gotoI' = 0
  /\ lastErr' = Null
  /\ cardIdx' = 0
  /\ UNCHANGED <<variant, catIdx, all, unique, callArgs, callRet, scroll>>

\* main after the loop: browser.close(), deduplicate, write public/products.json
WriteOutput ==
  /\ pc = "main"
  /\ catIdx = NumCategories
  /\ unique' = Deduplicate(all)
  /\ pc' = "done"
  /\ UNCHANGED <<variant, catIdx, gotoI, lastErr, page, cardIdx, results, all, trace,
                 outcome, callArgs, callRet, scroll>>

Next ==
  \/ StartCategory
  \/ GotoFails
  \/ GotoSucceeds
  \/ GotoExhausted
  \/ NavFailedReturn
  \/ GateRedirect
  \/ NoGate
  \/ NoProducts
  \/ ProductsFound
  \/ ScrollToLoad
  \/ ExtractCard
  \/ ReturnResults
  \/ PushItems
  \/ CatchCategory
  \/ WriteOutput

Spec == Init /\ [][Next]_vars

(***************************************************************************)
(* Properties of the pipeline.                                             *)
(***************************************************************************)
\* the position in ps of the first record with the id
FirstIndex(ps, id) ==
  CHOOSE j \in 1..Len(ps) : ps[j].id = id /\ \A k \in 1..(j - 1) : ps[k].id # id

\* C1: the output main writes holds no two records with the same id; every
\* id collected occurs in it; the record kept for an id is the first one
\* collected with it (earliest category, earliest position); and the kept
\* records stand in the order of their first occurrences.
C1_FirstSeenWins ==
  pc = "done" =>
    /\ \A i, j \in 1..Len(unique) : unique[i].id = unique[j].id => i = j
    /\ \A j \in 1..Len(all) : \E i \in 1..Len(unique) : unique[i].id = all[j].id
    /\ \A i \in 1..Len(unique) :
         /\ \E j \in 1..Len(all) : all[j].id = unique[i].id
         /\ unique[i] = all[FirstIndex(all, unique[i].id)]
    /\ \A i, j \in 1..Len(unique) :
         i < j => FirstIndex(all, unique[i].id) < FirstIndex(all, unique[j].id)

\* C1 witness: two categories collected different records with one id, a
\* third record came between them, and the output keeps the earlier record
\* and the third one, in that order.
C1_Witness ==
  /\ pc = "done"
  /\ Len(all) >= 3
  /\ all[1].id = all[3].id
  /\ all[1] # all[3]
  /\ all[2].id # all[1].id
  /\ unique = <<all[1], all[2]>>
  /\ Len(outcome[1].items) = 1

\* the navigation attempts gotoWithRetry has made
GotoEntries == {i \in 1..Len(trace) : trace[i] \in {"goto:failed", "goto:ok"}}

FailedWaits ==
  {i \in 1..Len(trace) : trace[i] \in {"domcontentloaded:failed", "networkidle:failed"}}

\* C3: gotoWithRetry makes at most NavTries attempts; no attempt follows an
\* attempt that succeeded; it throws only after NavTries failed attempts and
\* then throws the error of the last one; after a successful attempt it
\* returns, whether or not the stabilization waits failed.
C3_GotoWithRetry ==
  /\ Cardinality(GotoEntries) <= NavTries
  /\ \A i \in GotoEntries : trace[i] = "goto:ok" => \A k \in GotoEntries : k <= i
  /\ pc = "goto" => \A i \in GotoEntries : trace[i] = "goto:failed"
  /\ pc = "navFailed" =>
       /\ Cardinality(GotoEntries) = NavTries
       /\ \A i \in GotoEntries : trace[i] = "goto:failed"
       /\ lastErr = Some(NavTries)
  /\ pc = "landed" => \E i \in GotoEntries : trace[i] = "goto:ok"
  /\ (\E i \in GotoEntries : trace[i] = "goto:ok") => pc = "landed"
  /\ FailedWaits # {} => pc = "landed"

\* C3 witness: the third attempt succeeded after two failures, both
\* stabilization waits failed, and gotoWithRetry returned.
C3_Witness ==
  /\ pc = "landed"
  /\ trace = <<"goto:failed", "goto:failed", "goto:ok",
               "domcontentloaded:failed", "networkidle:failed">>
  /\ lastErr = Some(2)

\* the items of the categories processed so far, in order
RECURSIVE ItemsOf(_)
ItemsOf(os) ==
  IF os = << >> THEN << >>
  ELSE ItemsOf(SubSeq(os, 1, Len(os) - 1)) \o os[Len(os)].items

\* C4: a category whose navigation failed on all attempts ends with
\* scrapeCategory returning an empty list; whatever way a category ends,
\* main has an outcome for every category before it, starts the next one,
\* and all holds exactly the records of the categories so far; however
\* scrapeCategory ended, main has a next step, and it finishes only after
\* every category of CATEGORY_URLS.
C4_CategoryFailureContained ==
  /\ \A i \in 1..Len(outcome) :
       outcome[i].kind = "navFailed" => outcome[i].returned /\ outcome[i].items = << >>
  /\ all = ItemsOf(outcome)
  /\ Len(outcome) = IF pc \in {"main", "done"} THEN catIdx ELSE catIdx - 1
  /\ pc = "done" => Len(outcome) = NumCategories
  /\ pc \in {"main", "returned", "threw"} =>
       ENABLED (PushItems \/ CatchCategory \/ StartCategory \/ WriteOutput)

\* C4 witness: the first category collected records, the navigation of the
\* second failed on all attempts, the last category collected records,
\* and all holds the records of the first followed by those of the last.
C4_Witness ==
  /\ pc = "done"
  /\ outcome[1].items # << >>
  /\ outcome[2].kind = "navFailed"
  /\ outcome[NumCategories].kind = "extracted"
  /\ outcome[NumCategories].items # << >>
  /\ all = outcome[1].items \o outcome[NumCategories].items

\* C5: once the landed URL is a gate URL, scrapeCategory has returned an
\* empty list having called only acceptCookies and debugDump: no further
\* navigation, no waitForProducts, no scrollToLoad, no extractCardData; and
\* the category contributes nothing.
C5_GateReturnsEmpty ==
  /\ (page # Null /\ page[1].url \in GateUrls) =>
       /\ pc = "returned"
       /\ results = << >>
       /\ trace = <<"acceptCookies", "debugDump">>
  /\ \A i \in 1..Len(outcome) :
       outcome[i].kind = "gate" => outcome[i].returned /\ outcome[i].items = << >>

\* C5 witness: the landed URL is a gate URL written with capitals, the page
\* behind it offers a product, and scrapeCategory returned.
C5_Witness ==
  /\ pc = "returned"
  /\ page # Null
  /\ page[1].url = UrlChooseCountry
  /\ page[1].cards # << >>
  /\ results = << >>

\* the records of the cards of the page that extractCardData accepts
RECURSIVE ValidRecords(_, _, _)
ValidRecords(v, cards, baseUrl) ==
  IF cards = << >> THEN << >>
  ELSE LET item == extractCardData(v, Fragment(cards[1]), baseUrl)
           rest == ValidRecords(v, Tail(cards), baseUrl)
       IN  IF ~item.threw /\ item.val # Null THEN <<item.val[1]>> \o rest ELSE rest

\* C6: when the loop over the cards of a category has ended, scrapeCategory
\* has returned, and its result holds the record of every valid fragment of
\* the category, whatever happened with the others.
C6_FragmentFailureConfined ==
  (page # Null /\ pc \in {"returned", "threw"} /\ OutcomeKind = "extracted") =>
    /\ pc = "returned"
    /\ results = ValidRecords(variant, CardsToExtract(page[1]), CategoryUrl)

(***************************************************************************)
(* scrollToLoad(page, targetCount), the same in both variants.             *)
(*                                                                         *)
(* scroll.pc  "none"       scrollToLoad is not running                     *)
(*            "loop"       at the head of the for loop                     *)
(*            "target"     returned: count >= targetCount                  *)
(*            "converged"  left the loop by break                          *)
(*            "exhausted"  left the loop with i = SCROLL_STEPS             *)
(* scroll.i, scroll.lastCount   the locals i and lastCount                 *)
(* scroll.counts   history: the counts measured, one per step              *)
(* scroll.wheels   history: the number of page.mouse.wheel calls           *)
(*                                                                         *)
(* The page answers every measurement with any count: the list may grow,   *)
(* stall or shrink.  The loop is sequential code whose awaits resolve, so  *)
(* a step that can be taken is taken.                                      *)
(***************************************************************************)
SCROLL_STEPS == 10

\* what page.$$('[data-testid="product-card"]').length may be
ScrollCounts == {0, 20, 50, 80}

\* the targetCount of the call: scrapeCategory passes maxCards
TargetCounts == {50, MAX_ITEMS_PER_CATEGORY}

\* the convergence test never applied
NoGrowth_never(i, count, lastCount) == FALSE

\* i > 2 && count === lastCount
NoGrowth(i, count, lastCount) == i > 2 /\ count = lastCount

InitScroll ==
  /\ variant \in Variants
  /\ PipelineIdle
  /\ callArgs = Idle
  /\ callRet = Null
  /\ \E t \in TargetCounts :
       scroll = [pc |-> "loop", targetCount |-> t, i |-> 0, lastCount |-> 0,
                 counts |-> << >>, wheels |-> 0]

\* one turn of the loop: measure; count >= targetCount, return
ScrollReachedTarget ==
  /\ scroll.pc = "loop"
  /\ scroll.i < SCROLL_STEPS
  /\ \E count \in ScrollCounts :
       /\ count >= scroll.targetCount
       /\ scroll' = [scroll EXCEPT !.pc = "target", !.counts = Append(@, count)]
  /\ UNCHANGED <<variant, callArgs, callRet, pipelineVars>>

\* one turn of the loop: measure; no growth, break
ScrollConverged ==
  /\ scroll.pc = "loop"
  /\ scroll.i < SCROLL_STEPS
  /\ \E count \in ScrollCounts :
       /\ count < scroll.targetCount
       /\ NoGrowth(scroll.i, count, scroll.lastCount)
       /\ scroll' = [scroll EXCEPT !.pc = "converged", !.counts = Append(@, count)]
  /\ UNCHANGED <<variant, callArgs, callRet, pipelineVars>>

\* one turn of the loop: measure; lastCount = count; wheel, settle, i++
ScrollStep ==
  /\ scroll.pc = "loop"
  /\ scroll.i < SCROLL_STEPS
  /\ \E count \in ScrollCounts :
       /\ count < scroll.targetCount
       /\ ~NoGrowth(scroll.i, count, scroll.lastCount)
       /\ scroll' = [scroll EXCEPT !.counts = Append(@, count), !.lastCount = count,
                                   !.wheels = @ + 1, !.i = @ + 1]
  /\ UNCHANGED <<variant, callArgs, callRet, pipelineVars>>

\* i < SCROLL_STEPS is false: the loop is over
ScrollExhausted ==
  /\ scroll.pc = "loop"
  /\ scroll.i >= SCROLL_STEPS
  /\ scroll' = [scroll EXCEPT !.pc = "exhausted"]
  /\ UNCHANGED <<variant, callArgs, callRet, pipelineVars>>

NextScroll ==
  \/ ScrollReachedTarget
  \/ ScrollConverged
  \/ ScrollStep
  \/ ScrollExhausted

SpecScroll == InitScroll /\ [][NextScroll]_vars /\ WF_vars(NextScroll)

ScrollEnded == scroll.pc \in {"target", "converged", "exhausted"}

\* the page of the example: targetCount is 50 and from the 3rd step on
\* every measurement is 20
StalledAt20 ==
  /\ scroll.pc # "none"
  /\ scroll.targetCount = 50
  /\ Len(scroll.counts) >= 3
  /\ \A k \in 3..Len(scroll.counts) : scroll.counts[k] = 20

ScrollBounded ==
  scroll.pc # "none" =>
    /\ Len(scroll.counts) <= SCROLL_STEPS
    /\ scroll.wheels <= SCROLL_STEPS
    /\ StalledAt20 =>
         /\ scroll.pc # "exhausted"
         /\ Len(scroll.counts) < SCROLL_STEPS
         /\ scroll.wheels < SCROLL_STEPS

\* C11: scrollToLoad never measures more than SCROLL_STEPS times and always
\* ends, whatever counts the page shows; with targetCount 50 on a page that
\* stalls at 20 by the 3rd step it ends early, after fewer than SCROLL_STEPS
\* measurements and fewer than SCROLL_STEPS scroll actions.
C11_ScrollTerminates == []ScrollBounded /\ <>ScrollEnded

\* C11 witness: targetCount 50, the page showed 0 and then 20 three times,
\* and scrollToLoad left the loop after three scroll actions.
C11_Witness ==
  /\ scroll.pc = "converged"
  /\ StalledAt20
  /\ scroll.counts = <<0, 20, 20, 20>>
  /\ scroll.wheels = 3

\* C12: when the count of the 3rd step is below targetCount and equal to
\* the count of the 2nd step, the loop has stopped at the 3rd step with no
\* scroll action after the 2nd; and the loop never stops for lack of growth
\* during the 1st and 2nd steps.
C12_ConvergenceFromThirdStep ==
  scroll.pc # "none" =>
    /\ (/\ Len(scroll.counts) >= 3
        /\ scroll.counts[3] < scroll.targetCount
        /\ scroll.counts[3] = scroll.counts[2])
         => /\ scroll.pc = "converged"
            /\ Len(scroll.counts) = 3
            /\ scroll.wheels = 2
    /\ scroll.pc = "converged" => Len(scroll.counts) >= 3


=============================================================================
